---- MODULE Spec2Model ----
(***************************************************************************)
(* Model of MaxClient (src/src/client.ts): the WebSocket connection        *)
(* lifecycle, the request/response correlator (sequence numbers, pending   *)
(* table, 30 s request timers, dispatch of inbound frames) and the         *)
(* authentication / keepalive sequencer.                                   *)
(*                                                                         *)
(* JavaScript runs on one event loop.  Every action below is one           *)
(* macrotask (an API call made by user code, a transport event, a timer)   *)
(* together with the promise continuations it makes runnable: those run    *)
(* as microtasks before the next macrotask is taken.                       *)
(*                                                                         *)
(* The variables hold what the program holds: a promise that is settled    *)
(* and has no armed timer, and an async call that has returned, are no     *)
(* longer referenced by the client and are forgotten.  What a step did     *)
(* (the request it created, the promise it settled, the call that          *)
(* returned, the callback it invoked, the event it emitted) is recorded    *)
(* in `last`.                                                              *)
(***************************************************************************)
EXTENDS Integers, Sequences, FiniteSets, TLC

\* ---------------------------------------------------------------- bounds
MaxSeq == 3        \* requests issued over the lifetime of the client
MaxSockets == 2    \* transports opened over the lifetime of the client
MaxTasks == 2      \* sendCode / signIn / loginByToken calls that suspend
MaxEvents == 1     \* unsolicited frames waiting in the setImmediate queue
MaxBurst == 2      \* the same, while a burst of unsolicited frames arrives
MaxCallbacks == 2  \* distinct functions passed to setCallback
MaxUploadSeq == 4  \* requests issued by a login and one uploadAndSendFile

\* ------------------------------------------------------ program constants
KEEPALIVE == 1
HELLO == 6
START_AUTH == 17
VERIFY_CODE == 18
LOGIN_BY_TOKEN == 19
SEND_MESSAGE == 64
FILE_UPLOAD_NOTIFICATION == 65
REQUEST_FILE_UPLOAD_URL == 87
MESSAGE_RECEIVED == 128
FILE_READY_NOTIFICATION == 136

VARIABLES
    connection,             \* _connection: 0 is null, else index into sockets
    isLoggedIn,             \* _isLoggedIn
    seq,                    \* _seq
    keepaliveTask,          \* _keepaliveTask: 0 is null, else an interval id
    recvTask,               \* _recvTask: 0 is null (never assigned)
    incomingEventCallback,  \* _incomingEventCallback: 0 is null
    pending,                \* _pending: Map seq -> index of the request
    isConnected,            \* _isConnected
    sockets,                \* every WebSocket created, in creation order
    reqs,                   \* the promises made by invokeMethod, call order
    lastSeq,                \* seq given to the last request (0: none yet)
    lastSent,               \* seq of the last frame handed to an open transport
    tasks,                  \* the sendCode/signIn/loginByToken calls made
    intervals,              \* armed setInterval timers (ids)
    immediates,             \* setImmediate queue of unsolicited frames
    helloed,                \* socket whose HELLO was answered (0: none open)
    listeners,              \* uploads whose 'message' handler is registered
    fileReady,              \* uploads whose FILE_READY came after their opcode 65
    last                    \* the macrotask that ran last and what it did

vars == <<connection, isLoggedIn, seq, keepaliveTask, recvTask,
          incomingEventCallback, pending, isConnected, sockets, reqs, lastSeq,
          lastSent,
          tasks, intervals, immediates, helloed, listeners, fileReady, last>>

\* ------------------------------------------------------------- inbound data
NoFrame == [seq |-> -1, opcode |-> 0, error |-> FALSE]
Garbage == [seq |-> -2, opcode |-> 0, error |-> FALSE]   \* not JSON

\* A parsed frame: seq 0 stands for a frame without a seq field; error says
\* whether payload.error is set.
Frames ==
    { [seq |-> q, opcode |-> SEND_MESSAGE, error |-> e] :
          q \in 0..MaxSeq, e \in BOOLEAN }
    \cup { [seq |-> q, opcode |-> MESSAGE_RECEIVED, error |-> FALSE] :
          q \in 0..MaxSeq }

\* ------------------------------------------------- what a step can record
NoRequest == [seq |-> 0, opcode |-> 0, sock |-> 0, sent |-> FALSE]
NoSettle == [req |-> 0, seq |-> 0, how |-> "", prev |-> "", value |-> NoFrame]
NoReturn == [task |-> 0, kind |-> "", res |-> ""]
NoCall == [cb |-> 0, frame |-> NoFrame]

\* The client and its environment as one record, so that a handler and the
\* continuations it triggers compose as functions from state to state.
\* ret is the outcome of the synchronous call that ran last.
Cur ==
    [connection |-> connection, isLoggedIn |-> isLoggedIn, seq |-> seq,
     keepaliveTask |-> keepaliveTask, recvTask |-> recvTask,
     incomingEventCallback |-> incomingEventCallback, pending |-> pending,
     isConnected |-> isConnected, sockets |-> sockets, reqs |-> reqs,
     lastSeq |-> lastSeq, lastSent |-> lastSent, tasks |-> tasks, intervals |-> intervals,
     immediates |-> immediates, helloed |-> helloed,
     listeners |-> listeners, fileReady |-> fileReady,
     ret |-> "ok", created |-> NoRequest, settled |-> NoSettle,
     returned |-> NoReturn, called |-> NoCall, emitted |-> NoFrame]

Becomes(S, op, sock) ==
    /\ connection' = S.connection
    /\ isLoggedIn' = S.isLoggedIn
    /\ seq' = S.seq
    /\ keepaliveTask' = S.keepaliveTask
    /\ recvTask' = S.recvTask
    /\ incomingEventCallback' = S.incomingEventCallback
    /\ pending' = S.pending
    /\ isConnected' = S.isConnected
    /\ sockets' = S.sockets
    /\ reqs' = S.reqs
    /\ lastSeq' = S.lastSeq
    /\ lastSent' = S.lastSent
    /\ tasks' = S.tasks
    /\ intervals' = S.intervals
    /\ immediates' = S.immediates
    /\ helloed' = S.helloed
    /\ listeners' = S.listeners
    /\ fileReady' = S.fileReady
    /\ last' = [op |-> op, sock |-> sock, res |-> S.ret,
                created |-> S.created, settled |-> S.settled,
                returned |-> S.returned, called |-> S.called,
                emitted |-> S.emitted]

\* The bounds of the model, as a condition on the state an action produces.
Bounded(S) ==
    /\ S.seq <= MaxSeq + 1
    /\ Len(S.sockets) <= MaxSockets
    /\ Len(S.tasks) <= MaxTasks
    /\ Len(S.immediates) <= MaxEvents

\* ---------------------------------------------------------------- Map ops
MapSet(m, k, v) == [x \in DOMAIN m \cup {k} |-> IF x = k THEN v ELSE m[x]]
MapDelete(m, k) == [x \in DOMAIN m \ {k} |-> m[x]]
MapHas(m, k) == k \in DOMAIN m
EmptyMap == [x \in {} |-> 0]

Init ==
    /\ connection = 0
    /\ isLoggedIn = FALSE
    /\ seq = 1
    /\ keepaliveTask = 0
    /\ recvTask = 0
    /\ incomingEventCallback = 0
    /\ pending = EmptyMap
    /\ isConnected = FALSE
    /\ sockets = <<>>
    /\ reqs = <<>>
    /\ lastSeq = 0
    /\ lastSent = 0
    /\ tasks = <<>>
    /\ intervals = {}
    /\ immediates = <<>>
    /\ helloed = 0
    /\ listeners = {}
    /\ fileReady = {}
    /\ last = [op |-> "new", sock |-> 0, res |-> "ok",
               created |-> NoRequest, settled |-> NoSettle,
               returned |-> NoReturn, called |-> NoCall, emitted |-> NoFrame]

\* ------------------------------------------------------------ the transport
\* What the ws library does is outside the repository; the model keeps the
\* behaviour of ws 7 and 8: send() throws while the socket is CONNECTING, and
\* without a callback it drops the data on a socket that is CLOSING or
\* CLOSED.
NewSocket == [st |-> "connecting", promise |-> "pending", recv |-> FALSE]
ClosedSocket == [st |-> "closed", promise |-> "settled", recv |-> FALSE]

SendThrows(sock) == sock.st = "connecting"

\* close() on a socket: aborts the handshake, or starts the closing handshake.
SocketCloseCall(sock) ==
    [sock EXCEPT !.st = CASE @ = "connecting" -> "aborted"
                         [] @ = "open" -> "closing"
                         [] OTHER -> @]

\* --------------------------------------------------------------- the tasks
NewTask(kind, pc) == [kind |-> kind, pc |-> pc]
DoneTask == [kind |-> "", pc |-> "done"]

\* An async function returns or throws: its promise settles with res.
Finish(S, t, res) ==
    [S EXCEPT !.tasks[t] = DoneTask,
              !.returned = [task |-> t, kind |-> S.tasks[t].kind, res |-> res],
              !.ret = res]

\* ------------------------------------------------------------ invokeMethod
\* A promise of invokeMethod: st is its state, timer whether its setTimeout
\* is armed, task the async call awaiting it (0: user code).
GoneRequest == [seq |-> 0, sock |-> 0, st |-> "gone", timer |-> FALSE, task |-> 0]

\* (mutant) the sequence counter is not advanced
InvokeMethod_NoIncrement(S, opcode, t) ==
    IF S.connection = 0
    THEN [S EXCEPT !.ret = "NotConnected"]
    ELSE LET q == S.seq
             i == Len(S.reqs) + 1
             sock == S.sockets[S.connection]
             throws == SendThrows(sock)
             r == [seq |-> q, sock |-> S.connection,
                   st |-> IF throws THEN "rejected" ELSE "pending",
                   timer |-> ~throws,
                   task |-> t]
         IN  [S EXCEPT !.reqs = Append(@, r),
                       !.pending = MapSet(@, q, i),
                       !.lastSeq = q,
                       !.lastSent = IF sock.st = "open" THEN q ELSE @,
                       !.created = [seq |-> q, opcode |-> opcode,
                                    sock |-> S.connection,
                                    sent |-> sock.st = "open"],
                       !.settled = IF throws
                                   THEN [req |-> i, seq |-> q,
                                         how |-> "TransportError",
                                         prev |-> "pending", value |-> NoFrame]
                                   ELSE @,
                       !.ret = IF throws THEN "TransportError" ELSE "awaiting"]

InvokeMethod(S, opcode, t) ==
    IF S.connection = 0
    THEN [S EXCEPT !.ret = "NotConnected"]
    ELSE LET q == S.seq
             i == Len(S.reqs) + 1
             sock == S.sockets[S.connection]
             throws == SendThrows(sock)
             r == [seq |-> q, sock |-> S.connection,
                   st |-> IF throws THEN "rejected" ELSE "pending",
                   timer |-> ~throws,
                   task |-> t]
         IN  [S EXCEPT !.seq = q + 1,
                       !.reqs = Append(@, r),
                       !.pending = MapSet(@, q, i),
                       !.lastSeq = q,
                       !.lastSent = IF sock.st = "open" THEN q ELSE @,
                       !.created = [seq |-> q, opcode |-> opcode,
                                    sock |-> S.connection,
                                    sent |-> sock.st = "open"],
                       !.settled = IF throws
                                   THEN [req |-> i, seq |-> q,
                                         how |-> "TransportError",
                                         prev |-> "pending", value |-> NoFrame]
                                   ELSE @,
                       !.ret = IF throws THEN "TransportError" ELSE "awaiting"]

\* `await this.invokeMethod(...)` inside task t: suspend at pc, or rethrow.
AwaitInvoke(S, t, pc) ==
    IF S.ret = "awaiting"
    THEN [S EXCEPT !.tasks[t].pc = pc]
    ELSE Finish(S, t, S.ret)

\* ------------------------------------------------------------- keepalive
\* (mutant) the keepalive task is started without the already-started check
StartKeepaliveTask_NoCheck(S, id) ==
    [S EXCEPT !.keepaliveTask = id, !.intervals = @ \cup {id}, !.ret = "ok"]

\* (mutant) the already-started check comes after setInterval
StartKeepaliveTask_CheckAfter(S, id) ==
    [S EXCEPT !.keepaliveTask = id, !.intervals = @ \cup {id},
              !.ret = IF S.keepaliveTask # 0
                      THEN "KeepaliveAlreadyStarted" ELSE "ok"]

StartKeepaliveTask(S, id) ==
    IF S.keepaliveTask # 0
    THEN [S EXCEPT !.ret = "KeepaliveAlreadyStarted"]
    ELSE [S EXCEPT !.keepaliveTask = id, !.intervals = @ \cup {id},
                   !.ret = "ok"]

\* (mutant) the handle is dropped without clearInterval
StopKeepaliveTask_NoClear(S) ==
    IF S.keepaliveTask # 0
    THEN [S EXCEPT !.keepaliveTask = 0]
    ELSE S

StopKeepaliveTask(S) ==
    IF S.keepaliveTask # 0
    THEN [S EXCEPT !.intervals = @ \ {S.keepaliveTask}, !.keepaliveTask = 0]
    ELSE S

SendKeepalivePacket(S) ==
    IF S.connection = 0
    THEN [S EXCEPT !.ret = "NotConnected"]
    ELSE InvokeMethod(S, KEEPALIVE, 0)

\* --------------------------------------------- continuations after an await
\* (mutant) signIn does not look at payload.error
SignInResume_NoErrorCheck(S, t, frame) ==
    LET S1 == [S EXCEPT !.isLoggedIn = TRUE]
        S2 == StartKeepaliveTask(S1, t)
    IN  Finish(S2, t, S2.ret)

\* (mutant) signIn starts the keepalive task before it looks at the response
SignInResume_KeepaliveFirst(S, t, frame) ==
    LET S0 == StartKeepaliveTask(S, t)
    IN  IF frame.error
        THEN Finish(S0, t, "AuthError")
        ELSE Finish([S0 EXCEPT !.isLoggedIn = TRUE], t, S0.ret)

\* signIn after `await this.invokeMethod(VERIFY_CODE, ...)` returned frame.
SignInResume(S, t, frame) ==
    IF frame.error
    THEN Finish(S, t, "AuthError")
    ELSE LET S1 == [S EXCEPT !.isLoggedIn = TRUE]
             S2 == StartKeepaliveTask(S1, t)
         IN  Finish(S2, t, S2.ret)

\* (mutant) loginByToken returns without starting the keepalive task
LoginByTokenResume_NoKeepalive(S, t, frame) ==
    IF S.tasks[t].pc = "hello"
    THEN AwaitInvoke(InvokeMethod(S, LOGIN_BY_TOKEN, t), t, "auth")
    ELSE IF frame.error
         THEN Finish(S, t, "AuthError")
         ELSE Finish([S EXCEPT !.isLoggedIn = TRUE], t, "ok")

\* loginByToken after `await this._sendHelloPacket()`, and after
\* `await this.invokeMethod(LOGIN_BY_TOKEN, ...)` returned frame.
LoginByTokenResume(S, t, frame) ==
    IF S.tasks[t].pc = "hello"
    THEN AwaitInvoke(InvokeMethod(S, LOGIN_BY_TOKEN, t), t, "auth")
    ELSE IF frame.error
         THEN Finish(S, t, "AuthError")
         ELSE LET S1 == [S EXCEPT !.isLoggedIn = TRUE]
                  S2 == StartKeepaliveTask(S1, t)
              IN  Finish(S2, t, S2.ret)

\* sendCode after the HELLO response, and after the START_AUTH response.
SendCodeResume(S, t, frame) ==
    IF S.tasks[t].pc = "hello"
    THEN AwaitInvoke(InvokeMethod(S, START_AUTH, t), t, "auth")
    ELSE Finish(S, t, "ok")

\* `await this.invokeMethod(...)` inside uploadAndSendFile: suspend at pc;
\* what the call throws is caught and rethrown as the upload error.
AwaitUpload(S, t, pc) ==
    IF S.ret = "awaiting"
    THEN [S EXCEPT !.tasks[t].pc = pc]
    ELSE Finish(S, t, "UploadError")

\* uploadAndSendFile after one of its requests was resolved with frame:
\* after REQUEST_FILE_UPLOAD_URL it starts the HTTP upload (frame.error stands
\* for a response without payload.info[0].url), after
\* FILE_UPLOAD_NOTIFICATION it arms the readiness timer and registers its
\* 'message' handler, after SEND_MESSAGE it returns the response.
UploadResume(S, t, frame) ==
    CASE S.tasks[t].pc = "url" ->
            IF frame.error
            THEN Finish(S, t, "UploadError")
            ELSE [S EXCEPT !.tasks[t].pc = "http"]
      [] S.tasks[t].pc = "notify" ->
            [S EXCEPT !.tasks[t].pc = "ready", !.listeners = @ \cup {t}]
      [] OTHER -> Finish(S, t, "ok")

\* (mutant) the operation carries on after a rejected request
Resume_NoRethrow(S, t, how, frame) ==
    CASE S.tasks[t].kind = "signIn" -> SignInResume(S, t, frame)
      [] S.tasks[t].kind = "loginByToken" -> LoginByTokenResume(S, t, frame)
      [] OTHER -> SendCodeResume(S, t, frame)

\* The awaiting task continues once its request is settled: a rejection is
\* rethrown by the await and ends the operation.
Resume(S, t, how, frame) ==
    IF how # "resolved"
    THEN Finish(S, t, IF S.tasks[t].kind = "upload" THEN "UploadError" ELSE how)
    ELSE CASE S.tasks[t].kind = "signIn" -> SignInResume(S, t, frame)
           [] S.tasks[t].kind = "loginByToken" -> LoginByTokenResume(S, t, frame)
           [] S.tasks[t].kind = "upload" -> UploadResume(S, t, frame)
           [] OTHER -> SendCodeResume(S, t, frame)

\* The HELLO request r of a sendCode or loginByToken call is being resolved
\* on the connection it was made on.
AnswersHello(S, r, how) ==
    /\ how = "resolved"
    /\ r.task # 0
    /\ S.tasks[r.task].pc = "hello"
    /\ r.sock = S.connection

\* resolve(frame) / reject(error) of the promise of reqs[i]: only the first
\* call settles a promise.  how is "resolved" or the error of the rejection.
Settle(S, i, how, frame) ==
    LET r == S.reqs[i]
        S1 == [S EXCEPT !.settled = [req |-> i, seq |-> r.seq, how |-> how,
                                     prev |-> r.st, value |-> frame]]
    IN  IF r.st # "pending"
        THEN S1
        ELSE LET S2 == [S1 EXCEPT !.reqs[i].st =
                            IF how = "resolved" THEN "resolved" ELSE "rejected",
                                  !.helloed = IF AnswersHello(S, r, how)
                                              THEN r.sock ELSE @]
             IN  IF r.task = 0 THEN S2 ELSE Resume(S2, r.task, how, frame)

\* ------------------------------------------------------------- handlers
\* (mutant) connect() without the already-connected check
ConnectCall_NoCheck(S) ==
    [S EXCEPT !.sockets = Append(@, NewSocket),
              !.connection = Len(S.sockets) + 1,
              !.ret = "awaiting"]

\* (mutant) connect() starts the sequence numbers of the new connection at 1
ConnectCall_ResetSeq(S) ==
    IF S.connection # 0
    THEN [S EXCEPT !.ret = "AlreadyConnected"]
    ELSE [S EXCEPT !.sockets = Append(@, NewSocket),
                   !.connection = Len(S.sockets) + 1,
                   !.seq = 1,
                   !.ret = "awaiting"]

\* connect(): the check, then the executor of the promise.
ConnectCall(S) ==
    IF S.connection # 0
    THEN [S EXCEPT !.ret = "AlreadyConnected"]
    ELSE [S EXCEPT !.sockets = Append(@, NewSocket),
                   !.connection = Len(S.sockets) + 1,
                   !.ret = "awaiting"]

\* _startRecvLoop(): registers the message listener on the connection.
StartRecvLoop(S) ==
    IF S.connection = 0
    THEN [S EXCEPT !.ret = "NotConnected"]
    ELSE [S EXCEPT !.sockets[S.connection].recv = TRUE]

\* resolve / reject of the promise connect() returned for socket s.
SettleConnect(S, s, how) ==
    IF S.sockets[s].promise = "pending"
    THEN [S EXCEPT !.sockets[s].promise = how]
    ELSE S

\* (mutant) the 'open' listener does not resolve the promise of connect()
OnOpen_NoResolve(S, s) ==
    StartRecvLoop([S EXCEPT !.isConnected = TRUE,
                            !.sockets[s].st = "open"])

\* the 'open' listener of socket s
OnOpen(S, s) ==
    LET S1 == StartRecvLoop([S EXCEPT !.isConnected = TRUE,
                                      !.sockets[s].st = "open"])
    IN  IF S1.ret = "NotConnected" THEN S1 ELSE SettleConnect(S1, s, "resolved")

\* (mutant) the 'error' listener only logs the error
OnError_NoReject(S, s) ==
    [S EXCEPT !.sockets[s].st = "dead"]

\* the 'error' listener of socket s; the transport is torn down after it
OnError(S, s) ==
    SettleConnect([S EXCEPT !.sockets[s].st = "dead"], s, "rejected")

\* (mutant) the 'close' listener keeps the connection handle
OnClose_KeepHandle(S, s) ==
    [S EXCEPT !.sockets[s].st = "closed",
              !.isConnected = FALSE]

\* (mutant) the 'close' listener also empties the pending table
OnClose_ClearPending(S, s) ==
    [S EXCEPT !.sockets[s].st = "closed",
              !.isConnected = FALSE,
              !.connection = 0,
              !.pending = EmptyMap]

\* (mutant) the 'close' listener clears the handle and keeps the flag
OnClose_KeepFlag(S, s) ==
    [S EXCEPT !.sockets[s].st = "closed",
              !.connection = 0]

\* the 'close' listener of socket s
OnClose(S, s) ==
    [S EXCEPT !.sockets[s].st = "closed",
              !.isConnected = FALSE,
              !.connection = 0]

\* (mutant) disconnect() without the not-connected check: close() is then
\* called on null, after the keepalive task was stopped
DisconnectCall_NoCheck(S) ==
    IF S.connection = 0
    THEN [StopKeepaliveTask(S) EXCEPT !.ret = "TypeError"]
    ELSE LET S1 == StopKeepaliveTask(S)
             S2 == IF S1.recvTask # 0
                   THEN [S1 EXCEPT !.intervals = @ \ {S1.recvTask}]
                   ELSE S1
         IN  [S2 EXCEPT !.sockets[S.connection] = SocketCloseCall(@),
                        !.isConnected = FALSE]

\* disconnect()
DisconnectCall(S) ==
    IF S.connection = 0
    THEN [S EXCEPT !.ret = "NotConnected"]
    ELSE LET S1 == StopKeepaliveTask(S)
             S2 == IF S1.recvTask # 0
                   THEN [S1 EXCEPT !.intervals = @ \ {S1.recvTask}]
                   ELSE S1
         IN  [S2 EXCEPT !.sockets[S.connection] = SocketCloseCall(@),
                        !.isConnected = FALSE]

\* (mutant) setCallback keeps a callback that is already registered
SetCallbackCall_KeepFirst(S, c) ==
    IF c = 0
    THEN [S EXCEPT !.ret = "TypeError"]
    ELSE IF S.incomingEventCallback # 0
         THEN S
         ELSE [S EXCEPT !.incomingEventCallback = c]

\* setCallback(c): c = 0 stands for an argument that is not a function
SetCallbackCall(S, c) ==
    IF c = 0
    THEN [S EXCEPT !.ret = "TypeError"]
    ELSE [S EXCEPT !.incomingEventCallback = c]

\* (mutant) the entry of a resolved request is left in the table
OnMessageData_NoDelete(S, data) ==
    IF data = Garbage
    THEN [S EXCEPT !.ret = "ParseError"]
    ELSE IF MapHas(S.pending, data.seq)
         THEN Settle(S, S.pending[data.seq], "resolved", data)
         ELSE IF S.incomingEventCallback # 0
              THEN [S EXCEPT !.immediates = Append(@, data), !.ret = "event"]
              ELSE [S EXCEPT !.ret = "dropped"]

\* (mutant) an unsolicited frame is not handed to setImmediate
OnMessageData_NoForward(S, data) ==
    IF data = Garbage
    THEN [S EXCEPT !.ret = "ParseError"]
    ELSE IF MapHas(S.pending, data.seq)
         THEN Settle([S EXCEPT !.pending = MapDelete(@, data.seq)],
                     S.pending[data.seq], "resolved", data)
         ELSE IF S.incomingEventCallback # 0
              THEN [S EXCEPT !.ret = "event"]
              ELSE [S EXCEPT !.ret = "dropped"]

\* (mutant) a frame that does not parse empties the pending table
OnMessageData_ClearOnGarbage(S, data) ==
    IF data = Garbage
    THEN [S EXCEPT !.pending = EmptyMap, !.ret = "ParseError"]
    ELSE IF MapHas(S.pending, data.seq)
         THEN Settle([S EXCEPT !.pending = MapDelete(@, data.seq)],
                     S.pending[data.seq], "resolved", data)
         ELSE IF S.incomingEventCallback # 0
              THEN [S EXCEPT !.immediates = Append(@, data), !.ret = "event"]
              ELSE [S EXCEPT !.ret = "dropped"]

\* (mutant) a frame that carries an error rejects the request
OnMessageData_RejectOnError(S, data) ==
    IF data = Garbage
    THEN [S EXCEPT !.ret = "ParseError"]
    ELSE IF MapHas(S.pending, data.seq)
         THEN Settle([S EXCEPT !.pending = MapDelete(@, data.seq)],
                     S.pending[data.seq],
                     IF data.error THEN "ServerError" ELSE "resolved", data)
         ELSE IF S.incomingEventCallback # 0
              THEN [S EXCEPT !.immediates = Append(@, data), !.ret = "event"]
              ELSE [S EXCEPT !.ret = "dropped"]

\* (mutant) an unsolicited frame is queued whether or not a callback is
\* registered; the closure looks for the callback when it runs
OnMessageData_QueueAlways(S, data) ==
    IF data = Garbage
    THEN [S EXCEPT !.ret = "ParseError"]
    ELSE IF MapHas(S.pending, data.seq)
         THEN Settle([S EXCEPT !.pending = MapDelete(@, data.seq)],
                     S.pending[data.seq], "resolved", data)
         ELSE [S EXCEPT !.immediates = Append(@, data), !.ret = "event"]

\* (mutant) a frame with the opcode of a server event is forwarded to the
\* callback before its seq is looked up
OnMessageData_EventByOpcode(S, data) ==
    IF data = Garbage
    THEN [S EXCEPT !.ret = "ParseError"]
    ELSE IF data.opcode = MESSAGE_RECEIVED /\ S.incomingEventCallback # 0
         THEN [S EXCEPT !.immediates = Append(@, data), !.ret = "event"]
         ELSE IF MapHas(S.pending, data.seq)
              THEN Settle([S EXCEPT !.pending = MapDelete(@, data.seq)],
                          S.pending[data.seq], "resolved", data)
              ELSE IF S.incomingEventCallback # 0
                   THEN [S EXCEPT !.immediates = Append(@, data), !.ret = "event"]
                   ELSE [S EXCEPT !.ret = "dropped"]

\* the 'message' listener: parse, look up the seq, resolve or forward
OnMessageData(S, data) ==
    IF data = Garbage
    THEN [S EXCEPT !.ret = "ParseError"]
    ELSE IF MapHas(S.pending, data.seq)
         THEN Settle([S EXCEPT !.pending = MapDelete(@, data.seq)],
                     S.pending[data.seq], "resolved", data)
         ELSE IF S.incomingEventCallback # 0
              THEN [S EXCEPT !.immediates = Append(@, data), !.ret = "event"]
              ELSE [S EXCEPT !.ret = "dropped"]

\* (mutant) the closures share one packet variable: each of them passes the
\* frame that arrived last
ImmediateRun_SharedPacket(S) ==
    [S EXCEPT !.immediates = Tail(@),
              !.called = [cb |-> S.incomingEventCallback,
                          frame |-> S.immediates[Len(S.immediates)]]]

\* The FILE_READY notification of the uploaded file (the model has one
\* file: the frame stands for opcode 136 with the fileId of the upload).
FileReady == [seq |-> 0, opcode |-> FILE_READY_NOTIFICATION, error |-> FALSE]

\* The 'message' handler of upload t: on the notification it clears the
\* timer, removes itself and resolves fileReadyPromise; the upload, if it is
\* still waiting, then sends the final SEND_MESSAGE.
ReadyHandler(S, t, data) ==
    IF data.opcode # FILE_READY_NOTIFICATION
    THEN S
    ELSE LET S1 == [S EXCEPT !.listeners = @ \ {t}]
         IN  IF S.tasks[t].pc = "ready"
             THEN AwaitUpload(InvokeMethod(S1, SEND_MESSAGE, t), t, "send")
             ELSE S1

\* History: the uploads that have sent their opcode 65 and not yet their
\* final message when the notification arrives.
NoteFileReady(S, data) ==
    IF data.opcode # FILE_READY_NOTIFICATION
    THEN S
    ELSE [S EXCEPT !.fileReady = @ \cup
            {t \in DOMAIN S.tasks : /\ S.tasks[t].kind = "upload"
                                    /\ S.tasks[t].pc \in {"notify", "ready"}}]

\* this.emit('message', packet): the handlers registered at this moment are
\* called with the packet, one after the other.
RECURSIVE EmitMessage(_, _, _)
EmitMessage(S, L, data) ==
    IF L = {}
    THEN S
    ELSE LET t == CHOOSE x \in L : \A y \in L : x <= y
         IN  EmitMessage(ReadyHandler(S, t, data), L \ {t}, data)

\* (mutant) the extended listener emits only when a callback is registered
OnMessageDataExt_EmitIfCallback(S, data) ==
    IF data = Garbage
    THEN [S EXCEPT !.ret = "ParseError"]
    ELSE IF MapHas(S.pending, data.seq)
         THEN Settle([S EXCEPT !.pending = MapDelete(@, data.seq)],
                     S.pending[data.seq], "resolved", data)
         ELSE IF S.incomingEventCallback # 0
              THEN [S EXCEPT !.emitted = data,
                             !.immediates = Append(@, data), !.ret = "event"]
              ELSE [S EXCEPT !.ret = "dropped"]

\* the 'message' listener of the extended client (the variant with
\* uploadAndSendFile): an unsolicited frame is first emitted as a 'message'
\* event of the client, then forwarded as above
OnMessageDataExt(S, data) ==
    IF data = Garbage
    THEN [S EXCEPT !.ret = "ParseError"]
    ELSE IF MapHas(S.pending, data.seq)
         THEN Settle([S EXCEPT !.pending = MapDelete(@, data.seq)],
                     S.pending[data.seq], "resolved", data)
         ELSE LET S1 == EmitMessage(NoteFileReady(S, data), S.listeners, data)
              IN  IF S.incomingEventCallback # 0
                  THEN [S1 EXCEPT !.emitted = data,
                                  !.immediates = Append(@, data),
                                  !.ret = "event"]
                  ELSE [S1 EXCEPT !.emitted = data, !.ret = "emitted"]

\* the setImmediate closure: reads the callback when it runs
ImmediateRun(S) ==
    [S EXCEPT !.immediates = Tail(@),
              !.called = [cb |-> S.incomingEventCallback,
                          frame |-> Head(S.immediates)]]

\* (mutant) the timer rejects without looking at the pending table
TimeoutFire_NoHas(S, i) ==
    LET S1 == [S EXCEPT !.reqs[i].timer = FALSE]
    IN  Settle([S1 EXCEPT !.pending = MapDelete(@, S1.reqs[i].seq)],
               i, "Timeout", NoFrame)

\* (mutant) the timer rejects and leaves the entry in the table
TimeoutFire_NoDelete(S, i) ==
    LET S1 == [S EXCEPT !.reqs[i].timer = FALSE]
    IN  IF MapHas(S1.pending, S1.reqs[i].seq)
        THEN Settle(S1, i, "Timeout", NoFrame)
        ELSE S1

\* the setTimeout closure of reqs[i]
TimeoutFire(S, i) ==
    LET S1 == [S EXCEPT !.reqs[i].timer = FALSE]
    IN  IF MapHas(S1.pending, S1.reqs[i].seq)
        THEN Settle([S1 EXCEPT !.pending = MapDelete(@, S1.reqs[i].seq)],
                    i, "Timeout", NoFrame)
        ELSE S1

\* (mutant) a tick that fails stops the keepalive task
KeepaliveFire_StopOnError(S) ==
    LET N == SendKeepalivePacket(S)
    IN  IF N.ret \in {"NotConnected", "TransportError"}
        THEN [StopKeepaliveTask(N) EXCEPT !.ret = "stopped"]
        ELSE N

\* the setInterval closure of the keepalive task: errors are only logged
KeepaliveFire(S) == SendKeepalivePacket(S)

\* sendCode(phone) up to its first await
SendCodeCall(S) ==
    IF S.connection = 0
    THEN [S EXCEPT !.ret = "NotConnected"]
    ELSE LET t == Len(S.tasks) + 1
             S1 == [S EXCEPT !.tasks = Append(@, NewTask("sendCode", "hello"))]
         IN  AwaitInvoke(InvokeMethod(S1, HELLO, t), t, "hello")

\* signIn(smsToken, smsCode) up to its first await
SignInCall(S) ==
    IF S.connection = 0
    THEN [S EXCEPT !.ret = "NotConnected"]
    ELSE LET t == Len(S.tasks) + 1
             S1 == [S EXCEPT !.tasks = Append(@, NewTask("signIn", "auth"))]
         IN  AwaitInvoke(InvokeMethod(S1, VERIFY_CODE, t), t, "auth")

\* loginByToken(token) up to its first await
LoginByTokenCall(S) ==
    IF S.connection = 0
    THEN [S EXCEPT !.ret = "NotConnected"]
    ELSE LET t == Len(S.tasks) + 1
             S1 == [S EXCEPT !.tasks = Append(@, NewTask("loginByToken", "hello"))]
         IN  AwaitInvoke(InvokeMethod(S1, HELLO, t), t, "hello")

\* uploadAndSendFile(chatId, fileData, filename) up to its first await
UploadCall(S) ==
    IF ~S.isConnected
    THEN [S EXCEPT !.ret = "NotConnected"]
    ELSE IF ~S.isLoggedIn
         THEN [S EXCEPT !.ret = "NotLoggedIn"]
         ELSE LET t == Len(S.tasks) + 1
                  S1 == [S EXCEPT !.tasks = Append(@, NewTask("upload", "url"))]
              IN  AwaitUpload(InvokeMethod(S1, REQUEST_FILE_UPLOAD_URL, t),
                              t, "url")

\* the HTTP POST of upload t ends: a failure is thrown, otherwise the upload
\* sends FILE_UPLOAD_NOTIFICATION and awaits its response
FetchDone(S, t, ok) ==
    IF ~ok
    THEN Finish(S, t, "UploadError")
    ELSE AwaitUpload(InvokeMethod(S, FILE_UPLOAD_NOTIFICATION, t), t, "notify")

\* the 30 s readiness timer of upload t fires: fileReadyPromise is rejected,
\* the upload logs that and sends the final SEND_MESSAGE; its handler stays
\* registered
ReadyTimeoutFire(S, t) ==
    AwaitUpload(InvokeMethod(S, SEND_MESSAGE, t), t, "send")

\* A settled promise that neither its timer nor the pending table refers to
\* is unreferenced, and so is a socket that has emitted its close event.
Referenced(S, i) ==
    \/ S.reqs[i].st = "pending"
    \/ S.reqs[i].timer
    \/ \E q \in DOMAIN S.pending : S.pending[q] = i

Collect(S) ==
    [S EXCEPT !.reqs = [i \in DOMAIN @ |->
                          IF Referenced(S, i) THEN @[i] ELSE GoneRequest],
              !.sockets = [s \in DOMAIN @ |->
                          IF @[s].st = "closed" THEN ClosedSocket ELSE @[s]],
              !.helloed = IF @ # 0 /\ S.sockets[@].st = "closed" THEN 0 ELSE @,
              !.fileReady = {t \in @ : S.tasks[t].pc \in {"notify", "ready"}}]

\* ---------------------------------------------------------------- actions
\* A call that throws at its first check, and a frame that is dropped, leave
\* every variable as it is: they are stuttering steps and not actions.  Their
\* outcome is the ret of the handler in that state.
Refused == {"NotConnected", "AlreadyConnected", "TypeError", "ParseError",
            "dropped", "NotLoggedIn"}

Step(S, op, sock) ==
    /\ S.ret \notin Refused
    /\ Bounded(S)
    /\ Becomes(Collect(S), op, sock)

Connect == Step(ConnectCall(Cur), "connect", 0)

Disconnect == Step(DisconnectCall(Cur), "disconnect", 0)

Invoke == Step(InvokeMethod(Cur, SEND_MESSAGE, 0), "invokeMethod", 0)

SetCallback == \E c \in 0..MaxCallbacks :
    /\ c # incomingEventCallback
    /\ Step(SetCallbackCall(Cur, c), "setCallback", 0)

SendCode == Step(SendCodeCall(Cur), "sendCode", 0)

SignIn == Step(SignInCall(Cur), "signIn", 0)

LoginByToken == Step(LoginByTokenCall(Cur), "loginByToken", 0)

SocketOpen == \E s \in DOMAIN sockets :
    /\ sockets[s].st = "connecting"
    /\ Step(OnOpen(Cur, s), "open", s)

SocketError == \E s \in DOMAIN sockets :
    /\ sockets[s].st \in {"connecting", "aborted", "open", "closing"}
    /\ Step(OnError(Cur, s), "error", s)

SocketClose == \E s \in DOMAIN sockets :
    /\ sockets[s].st \in {"open", "closing", "dead"}
    /\ Step(OnClose(Cur, s), "close", s)

\* socket s emits 'message' with data
MessageOn(s, data) ==
    /\ sockets[s].recv
    /\ sockets[s].st \in {"open", "closing"}
    /\ Step(OnMessageData(Cur, data), "message", s)

SocketMessage == \E s \in DOMAIN sockets, data \in Frames \cup {Garbage} :
    MessageOn(s, data)

\* socket s of the extended client emits 'message' with data
MessageExtOn(s, data) ==
    /\ sockets[s].recv
    /\ sockets[s].st \in {"open", "closing"}
    /\ Step(OnMessageDataExt(Cur, data), "message", s)

SocketMessageExt == \E s \in DOMAIN sockets, data \in Frames \cup {Garbage} :
    MessageExtOn(s, data)

\* During a burst the setImmediate queue may hold MaxBurst frames.
BoundedBurst(S) ==
    /\ S.seq <= MaxSeq + 1
    /\ Len(S.sockets) <= MaxSockets
    /\ Len(S.tasks) <= MaxTasks
    /\ Len(S.immediates) <= MaxBurst

\* socket s emits 'message' with an unsolicited frame, back-to-back with
\* earlier ones: their setImmediate closures have not run yet
EventOn(s, data) ==
    /\ sockets[s].recv
    /\ sockets[s].st \in {"open", "closing"}
    /\ ~MapHas(pending, data.seq)
    /\ LET S == OnMessageData(Cur, data)
       IN  /\ S.ret \notin Refused
           /\ BoundedBurst(S)
           /\ Becomes(Collect(S), "message", s)

SocketEvent == \E s \in DOMAIN sockets, data \in Frames : EventOn(s, data)

RunImmediate ==
    /\ immediates # <<>>
    /\ Step(ImmediateRun(Cur), "immediate", 0)

RequestTimeout == \E i \in DOMAIN reqs :
    /\ reqs[i].timer
    /\ Step(TimeoutFire(Cur, i), "timeout", 0)

KeepaliveTick == \E id \in intervals :
    Step(KeepaliveFire(Cur), "keepalive", 0)

Next ==
    \/ Connect
    \/ Disconnect
    \/ Invoke
    \/ SetCallback
    \/ SendCode
    \/ SignIn
    \/ LoginByToken
    \/ SocketOpen
    \/ SocketError
    \/ SocketClose
    \/ SocketMessage
    \/ RunImmediate
    \/ RequestTimeout
    \/ KeepaliveTick

Spec == Init /\ [][Next]_vars

\* The correlator, driven by user requests, with an event callback.
NextRpc ==
    \/ Connect
    \/ Disconnect
    \/ Invoke
    \/ SetCallback
    \/ SocketOpen
    \/ SocketClose
    \/ SocketMessage
    \/ RunImmediate
    \/ RequestTimeout

SpecRpc == Init /\ [][NextRpc]_vars

\* The connection lifecycle with transport errors, and user requests.
NextConn ==
    \/ Connect
    \/ Disconnect
    \/ Invoke
    \/ SocketOpen
    \/ SocketError
    \/ SocketClose
    \/ SocketMessage
    \/ RequestTimeout

SpecConn == Init /\ [][NextConn]_vars

\* The session: logins, keepalive, disconnect and transport close, with no
\* event callback registered.
NextAuth ==
    \/ Connect
    \/ Disconnect
    \/ SignIn
    \/ LoginByToken
    \/ SocketOpen
    \/ SocketClose
    \/ SocketMessage
    \/ RequestTimeout
    \/ KeepaliveTick

SpecAuth == Init /\ [][NextAuth]_vars

\* Every source of requests: user calls, the auth helpers and keepalive.
NextSeq ==
    \/ Connect
    \/ Disconnect
    \/ Invoke
    \/ SendCode
    \/ SignIn
    \/ LoginByToken
    \/ SocketOpen
    \/ SocketClose
    \/ SocketMessage
    \/ KeepaliveTick

SpecSeq == Init /\ [][NextSeq]_vars

\* Unsolicited frames arriving in bursts, with callbacks being registered
\* and replaced, on one connection that stays open.
NextEvt ==
    \/ Connect
    \/ Invoke
    \/ SetCallback
    \/ SocketOpen
    \/ SocketMessage
    \/ SocketEvent
    \/ RunImmediate

SpecEvt == Init /\ [][NextEvt]_vars

\* The correlator of the extended client, whose listener emits events, on
\* one connection that stays open.
NextExt ==
    \/ Connect
    \/ Invoke
    \/ SetCallback
    \/ SocketOpen
    \/ SocketMessageExt
    \/ RunImmediate

SpecExt == Init /\ [][NextExt]_vars

\* The handshake of a transport ends: it opens, or it fails with an error
\* (also when close() was called on it before it opened).
HandshakeEnds == \E s \in DOMAIN sockets :
    \/ /\ sockets[s].st = "connecting"
       /\ Step(OnOpen(Cur, s), "open", s)
    \/ /\ sockets[s].st \in {"connecting", "aborted"}
       /\ Step(OnError(Cur, s), "error", s)

\* The connection lifecycle and user requests that get no response, with
\* timers that fire (setTimeout runs its closure after 30 s) and handshakes
\* that end.
NextLife ==
    \/ Connect
    \/ Disconnect
    \/ Invoke
    \/ SocketOpen
    \/ SocketError
    \/ SocketClose
    \/ RequestTimeout

SpecLife ==
    /\ Init
    /\ [][NextLife]_vars
    /\ WF_vars(RequestTimeout)
    /\ WF_vars(HandshakeEnds)

\* The same steps, where only the handshakes are known to end.
SpecHandshake ==
    /\ Init
    /\ [][NextLife]_vars
    /\ WF_vars(HandshakeEnds)

\* sendCode and loginByToken with request timeouts and transport close.
NextHello ==
    \/ Connect
    \/ SendCode
    \/ LoginByToken
    \/ SocketOpen
    \/ SocketClose
    \/ SocketMessage
    \/ RequestTimeout

SpecHello == Init /\ [][NextHello]_vars

\* A logged-in client with a registered callback and requests outstanding
\* whose transport closes and is opened again.
NextClose ==
    \/ Connect
    \/ Invoke
    \/ SetCallback
    \/ LoginByToken
    \/ SocketOpen
    \/ SocketClose
    \/ SocketMessage

SpecClose == Init /\ [][NextClose]_vars

\* The frames the server sends during a login and an upload: responses,
\* the readiness notification and another server event.
UploadFrames ==
    { [seq |-> q, opcode |-> SEND_MESSAGE, error |-> e] :
          q \in 1..MaxUploadSeq, e \in BOOLEAN }
    \cup {FileReady, [seq |-> 0, opcode |-> MESSAGE_RECEIVED, error |-> FALSE]}

BoundedUpload(S) ==
    /\ S.seq <= MaxUploadSeq + 1
    /\ Len(S.sockets) <= MaxSockets
    /\ Len(S.tasks) <= MaxTasks
    /\ Len(S.immediates) <= MaxEvents

StepUpload(S, op, sock) ==
    /\ S.ret \notin Refused
    /\ BoundedUpload(S)
    /\ Becomes(Collect(S), op, sock)

Upload == StepUpload(UploadCall(Cur), "uploadAndSendFile", 0)

UploadMessageOn(s, data) ==
    /\ sockets[s].recv
    /\ sockets[s].st \in {"open", "closing"}
    /\ StepUpload(OnMessageDataExt(Cur, data), "message", s)

UploadMessage == \E s \in DOMAIN sockets, data \in UploadFrames :
    UploadMessageOn(s, data)

FetchEnds == \E t \in DOMAIN tasks, ok \in BOOLEAN :
    /\ tasks[t].kind = "upload"
    /\ tasks[t].pc = "http"
    /\ StepUpload(FetchDone(Cur, t, ok), "fetch", 0)

ReadyTimeout == \E t \in DOMAIN tasks :
    /\ tasks[t].kind = "upload"
    /\ tasks[t].pc = "ready"
    /\ StepUpload(ReadyTimeoutFire(Cur, t), "readyTimeout", 0)

\* A login and an upload of the extended client on one connection.
NextUpload ==
    \/ Connect
    \/ SocketOpen
    \/ SignIn
    \/ Upload
    \/ UploadMessage
    \/ FetchEnds
    \/ ReadyTimeout

SpecUpload == Init /\ [][NextUpload]_vars

\* ================================================================ claims
\* The promise of reqs[i] was rejected because send() threw: the request
\* never reached the transport and no timer was armed for it.
Thrown(i) == i \in DOMAIN reqs /\ reqs[i].st = "rejected" /\ ~reqs[i].timer

\* C1: a request that was sent is settled at most once.  Every call of
\* resolve or reject made by a frame or by the request's timer finds the
\* promise pending; once the promise is resolved its seq is out of the
\* pending table, a frame with that seq settles nothing and leaves the
\* table alone, and its timer firing later leaves the table alone.
C1_SettledAtMostOnce ==
    [][ /\ (last'.settled.req # 0 /\ ~Thrown(last'.settled.req))
            => last'.settled.prev = "pending"
        /\ \A i \in DOMAIN reqs :
              reqs[i].st = "resolved" =>
                 /\ ~MapHas(pending, reqs[i].seq)
                 /\ \A f \in {g \in Frames : g.seq = reqs[i].seq} :
                       LET N == OnMessageData(Cur, f)
                       IN  N.settled = NoSettle /\ N.pending = pending
                 /\ ~reqs'[i].timer =>
                       /\ pending' = pending
                       /\ last'.settled = NoSettle
      ]_vars

\* C1 witness: the timer of an already resolved request has fired.
C1_Witness ==
    /\ last.op = "timeout"
    /\ last.settled = NoSettle

\* C2: a frame whose seq is that of an outstanding request resolves that
\* request with exactly that frame and removes its entry, leaving every
\* other request and entry as they were; once a request is resolved, a
\* further frame with its seq is an unsolicited event and settles nothing.
C2_ResolvesMatching ==
    [][ /\ \A s \in DOMAIN sockets, f \in Frames :
              (/\ last'.op = "message"
               /\ last'.sock = s
               /\ MapHas(pending, f.seq)
               /\ reqs[pending[f.seq]].st = "pending"
               /\ MessageOn(s, f))
              => LET i == pending[f.seq] IN
                 /\ reqs[i].seq = f.seq
                 /\ last'.settled = [req |-> i, seq |-> f.seq,
                                     how |-> "resolved", prev |-> "pending",
                                     value |-> f]
                 /\ reqs'[i].st = "resolved"
                 /\ DOMAIN pending' = DOMAIN pending \ {f.seq}
                 /\ \A q \in DOMAIN pending' : pending'[q] = pending[q]
                 /\ \A j \in DOMAIN reqs \ {i} : reqs'[j] = reqs[j]
        /\ \A i \in {j \in DOMAIN reqs : reqs[j].st = "resolved"} :
              \A f \in {g \in Frames : g.seq = reqs[i].seq} :
                 LET N == OnMessageData(Cur, f)
                 IN  N.ret \in {"event", "dropped"} /\ N.reqs = reqs
      ]_vars

\* C2 witness: with two requests outstanding, the response to the later one
\* has arrived first.
C2_Witness ==
    /\ last.op = "message"
    /\ last.settled.how = "resolved"
    /\ \E j \in DOMAIN reqs :
          reqs[j].st = "pending" /\ reqs[j].seq < last.settled.seq

\* C3: when the timer of a request that is still pending fires, the request
\* is rejected with the timeout error, its entry is removed from the pending
\* table and every other entry stays.
C3_TimeoutRejects ==
    [][ \A i \in DOMAIN reqs :
           (reqs[i].timer /\ ~reqs'[i].timer /\ reqs[i].st = "pending")
           => /\ last'.settled = [req |-> i, seq |-> reqs[i].seq,
                                  how |-> "Timeout", prev |-> "pending",
                                  value |-> NoFrame]
              /\ reqs'[i].st # "pending"
              /\ DOMAIN pending' = DOMAIN pending \ {reqs[i].seq}
              /\ \A q \in DOMAIN pending' : pending'[q] = pending[q]
      ]_vars

\* C3 witness: a request has timed out while another one is still pending.
C3_Witness ==
    /\ last.op = "timeout"
    /\ last.settled.how = "Timeout"
    /\ \E j \in DOMAIN reqs : reqs[j].st = "pending"

\* C5: a frame whose seq is not in the pending table settles no request,
\* leaves the pending table and every request as they are and is queued for
\* the registered callback, which is then invoked with that frame.
C5_UnsolicitedForwarded ==
    [][ /\ \A s \in DOMAIN sockets, f \in Frames :
              (/\ last'.op = "message"
               /\ last'.sock = s
               /\ ~MapHas(pending, f.seq)
               /\ MessageOn(s, f))
              => /\ last'.settled = NoSettle
                 /\ pending' = pending
                 /\ reqs' = reqs
                 /\ immediates' = Append(immediates, f)
        /\ Len(immediates') < Len(immediates)
              => /\ last'.called = [cb |-> incomingEventCallback,
                                    frame |-> Head(immediates)]
                 /\ incomingEventCallback # 0
                 /\ pending' = pending
                 /\ reqs' = reqs
      ]_vars

\* C5 witness: the response to a request that has timed out arrived and was
\* queued for the callback.
C5_Witness ==
    /\ last.op = "message"
    /\ last.res = "event"
    /\ immediates # <<>>
    /\ immediates[Len(immediates)].seq \in DOMAIN reqs
    /\ reqs[immediates[Len(immediates)].seq] = GoneRequest

\* C4: every request gets a seq greater than the seq of every request made
\* before it, whoever made the call, and a frame handed to the transport
\* carries a seq greater than that of every frame handed over before it.
C4_SeqIncreasing ==
    [][ /\ last'.created.seq # 0
           => /\ last'.created.seq > lastSeq
              /\ lastSeq' = last'.created.seq
              /\ last'.created.sent
                 => (last'.created.seq > lastSent /\ lastSent' = last'.created.seq)
        /\ \A i, j \in DOMAIN reqs' :
              (i < j /\ reqs'[i] # GoneRequest /\ reqs'[j] # GoneRequest)
              => reqs'[i].seq < reqs'[j].seq
        /\ lastSent' <= lastSeq'
      ]_vars

\* C4 witness: a keepalive tick has sent the third request of a connection,
\* after requests of a login and of user code.
C4_Witness ==
    /\ last.op = "keepalive"
    /\ last.created.opcode = KEEPALIVE
    /\ last.created.sent
    /\ last.created.seq = 3
    /\ \E i \in DOMAIN reqs : reqs[i].task = 0 /\ reqs[i].st = "pending"
                              /\ reqs[i].seq = 2

\* The connection is open: the client holds a socket whose state is OPEN.
HasOpenConnection == connection # 0 /\ sockets[connection].st = "open"

\* C6 (as claimed): in every state without an open connection invokeMethod
\* fails with the not-connected error.
C6_NotConnectedWithoutOpen ==
    ~HasOpenConnection => InvokeMethod(Cur, SEND_MESSAGE, 0).ret = "NotConnected"

\* C7: while the client holds a connection, connect() fails with the
\* already-connected error and creates no socket; at most one socket that
\* has not emitted close exists, and it is the one the client holds.
C7_SingleTransport ==
    /\ connection # 0
       => /\ ConnectCall(Cur).ret = "AlreadyConnected"
          /\ ConnectCall(Cur).sockets = sockets
          /\ ConnectCall(Cur).connection = connection
    /\ \A s \in DOMAIN sockets : sockets[s].st # "closed" => connection = s

\* C7 witness: the client has reconnected and holds its second socket, open.
C7_Witness ==
    /\ last.op = "open"
    /\ connection = 2
    /\ sockets[2].st = "open"
    /\ sockets[1].st = "closed"

\* The frame f answers the auth request (VERIFY_CODE or LOGIN_BY_TOKEN) of a
\* signIn or loginByToken call t that is waiting for it.
AnswersAuth(f, t) ==
    /\ MapHas(pending, f.seq)
    /\ reqs[pending[f.seq]].st = "pending"
    /\ reqs[pending[f.seq]].task = t
    /\ t \in DOMAIN tasks
    /\ tasks[t].kind \in {"signIn", "loginByToken"}
    /\ tasks[t].pc = "auth"

\* C8: when the auth response of signIn or loginByToken carries an error
\* the call is rejected with the authentication error and the step changes
\* neither the logged-in flag nor the keepalive timer; the flag and the
\* timer only ever change in a step in which a login returns normally or
\* disconnect() runs.
C8_AuthErrorRejects ==
    [][ /\ \A s \in DOMAIN sockets, f \in Frames, t \in DOMAIN tasks :
              (/\ last'.op = "message"
               /\ last'.sock = s
               /\ f.error
               /\ AnswersAuth(f, t)
               /\ MessageOn(s, f))
              => /\ last'.returned = [task |-> t, kind |-> tasks[t].kind,
                                      res |-> "AuthError"]
                 /\ isLoggedIn' = isLoggedIn
                 /\ keepaliveTask' = keepaliveTask
                 /\ intervals' = intervals
        /\ last'.returned.res = "AuthError"
              => /\ isLoggedIn' = isLoggedIn
                 /\ keepaliveTask' = keepaliveTask
                 /\ intervals' = intervals
      ]_vars

\* C8 witness: loginByToken was rejected with the authentication error
\* while the client was not logged in.
C8_Witness ==
    /\ last.returned.res = "AuthError"
    /\ last.returned.kind = "loginByToken"
    /\ ~isLoggedIn
    /\ keepaliveTask = 0
    /\ intervals = {}

\* C9: in the state in which signIn or loginByToken returns normally the
\* logged-in flag is set and exactly one keepalive timer is armed, the one
\* the client holds.
C9_LoginStartsKeepalive ==
    (last.returned.res = "ok" /\ last.returned.kind \in {"signIn", "loginByToken"})
    => /\ isLoggedIn
       /\ keepaliveTask # 0
       /\ intervals = {keepaliveTask}

\* C9 witness: loginByToken has returned normally.
C9_Witness ==
    /\ last.returned.res = "ok"
    /\ last.returned.kind = "loginByToken"

\* C10: when the auth response of signIn or loginByToken carries no error
\* and a keepalive timer is already held (an earlier login succeeded and
\* disconnect() was not called since), the call is rejected with the
\* keepalive-already-started error and no timer is created.
C10_SecondLoginRejected ==
    [][ \A s \in DOMAIN sockets, f \in Frames, t \in DOMAIN tasks :
           (/\ last'.op = "message"
            /\ last'.sock = s
            /\ ~f.error
            /\ keepaliveTask # 0
            /\ AnswersAuth(f, t)
            /\ MessageOn(s, f))
           => /\ last'.returned = [task |-> t, kind |-> tasks[t].kind,
                                   res |-> "KeepaliveAlreadyStarted"]
              /\ keepaliveTask' = keepaliveTask
              /\ intervals' = intervals
              /\ Cardinality(intervals') = 1
      ]_vars

\* C10 witness: a second login was rejected with keepalive-already-started.
C10_Witness ==
    /\ last.returned.res = "KeepaliveAlreadyStarted"
    /\ Cardinality(intervals) = 1
    /\ isLoggedIn

\* C11 (as claimed): a keepalive timer is armed exactly when the session is
\* logged in and the client is connected.
C11_KeepaliveIffLoggedInConnected ==
    (intervals # {}) <=> (isLoggedIn /\ isConnected)

\* C12 (as claimed): in the state disconnect() leaves behind, the logged-in
\* flag is false and the client holds no keepalive timer.
C12_DisconnectClearsSession ==
    last.op = "disconnect" => (~isLoggedIn /\ keepaliveTask = 0)

\* C13: while the client holds no connection, disconnect() fails with the
\* not-connected error and changes neither the sequence counter, the pending
\* table, the logged-in flag, the keepalive timer nor the callback.
C13_DisconnectNotConnected ==
    connection = 0
    => LET N == DisconnectCall(Cur)
       IN  /\ N.ret = "NotConnected"
           /\ N.seq = seq
           /\ N.pending = pending
           /\ N.isLoggedIn = isLoggedIn
           /\ N.keepaliveTask = keepaliveTask
           /\ N.intervals = intervals
           /\ N.incomingEventCallback = incomingEventCallback

\* C13 witness: the transport has closed under a logged-in session with a
\* request outstanding: no connection, a keepalive timer, a pending entry.
C13_Witness ==
    /\ connection = 0
    /\ isLoggedIn
    /\ keepaliveTask # 0
    /\ seq > 1
    /\ DOMAIN pending # {}
    /\ DisconnectCall(Cur).ret = "NotConnected"

\* C14: disconnect() leaves no keepalive timer armed; while no timer is
\* armed no keepalive tick runs and no KEEPALIVE request is made; and a
\* timer is armed again only in a step in which a login returns normally.
C14_NoKeepaliveAfterDisconnect ==
    [][ /\ last'.op = "disconnect" => (intervals' = {} /\ keepaliveTask' = 0)
        /\ intervals = {}
              => (last'.op # "keepalive" /\ last'.created.opcode # KEEPALIVE)
        /\ (intervals = {} /\ intervals' # {})
              => /\ last'.returned.res = "ok"
                 /\ last'.returned.kind \in {"signIn", "loginByToken"}
      ]_vars

\* C14 witness: after a login and a disconnect() the client has reconnected;
\* the session is still without a keepalive timer.
C14_Witness ==
    /\ last.op = "open"
    /\ connection = 2
    /\ isLoggedIn
    /\ intervals = {}

\* C15 (as claimed): a frame that arrives on a connection after disconnect()
\* and before its close event resolves no request and is not queued for the
\* event callback.
C15_DisconnectStopsRecv ==
    (/\ last.op = "message"
     /\ last.sock \in DOMAIN sockets
     /\ sockets[last.sock].st = "closing")
    => (last.settled = NoSettle /\ last.res # "event")

\* C16: an error event of a transport that has not opened rejects the
\* promise of its connect() and the client is not marked connected, then or
\* later, for a transport whose connect() was rejected; an error event after
\* open leaves that promise resolved; and no error event changes the
\* client's own state.
C16_ErrorBeforeOpenRejects ==
    [][ /\ last'.op = "error"
           => /\ sockets[last'.sock].promise = "pending"
                 => (sockets'[last'.sock].promise = "rejected" /\ ~isConnected')
              /\ sockets[last'.sock].promise = "resolved"
                 => sockets'[last'.sock].promise = "resolved"
              /\ connection' = connection
              /\ isConnected' = isConnected
              /\ isLoggedIn' = isLoggedIn
              /\ seq' = seq
              /\ pending' = pending
              /\ keepaliveTask' = keepaliveTask
              /\ incomingEventCallback' = incomingEventCallback
              /\ reqs' = reqs
        /\ \A s \in DOMAIN sockets' :
              sockets'[s].promise = "rejected"
              => (~isConnected' /\ sockets'[s].st \in {"dead", "closed"})
      ]_vars

\* C16 witness: the transport failed before it opened and connect() was
\* rejected.
C16_Witness ==
    /\ last.op = "error"
    /\ sockets[last.sock].promise = "rejected"
    /\ connection = last.sock
    /\ ~isConnected

\* C17: in the state a close event leaves behind the client holds no
\* connection and is not connected, whatever the state of the transport
\* was, and connect() then creates a new transport and makes it the
\* connection.
C17_CloseResets ==
    last.op = "close"
    => /\ connection = 0
       /\ ~isConnected
       /\ sockets[last.sock].st = "closed"
       /\ LET N == ConnectCall(Cur)
          IN  /\ N.ret = "awaiting"
              /\ N.connection = Len(sockets) + 1
              /\ N.sockets = Append(sockets, NewSocket)

\* C17 witness: after the close event of the first transport connect() was
\* called again and made a second one.
C17_Witness ==
    /\ last.op = "connect"
    /\ connection = 2
    /\ sockets[1] = ClosedSocket
    /\ sockets[2] = NewSocket

\* C18: setCallback with an argument that is not a function fails with a
\* TypeError and leaves the registered callback in place; with a function it
\* makes that function the registered callback, whatever was registered;
\* only setCallback changes the registered callback, it delivers nothing
\* itself, and every delivery goes to the callback registered at the time of
\* the delivery, also for a frame that arrived under an earlier one.
C18_LastRegistrationWins ==
    [][ /\ SetCallbackCall(Cur, 0).ret = "TypeError"
        /\ SetCallbackCall(Cur, 0).incomingEventCallback = incomingEventCallback
        /\ \A c \in 1..MaxCallbacks :
              /\ SetCallbackCall(Cur, c).ret = "ok"
              /\ SetCallbackCall(Cur, c).incomingEventCallback = c
        /\ incomingEventCallback' # incomingEventCallback
              => /\ last'.op = "setCallback"
                 /\ incomingEventCallback' # 0
                 /\ immediates' = immediates
                 /\ last'.called = NoCall
        /\ last'.called # NoCall
              => /\ last'.called.cb = incomingEventCallback
                 /\ last'.called.cb # 0
                 /\ incomingEventCallback' = incomingEventCallback
      ]_vars

\* C18 witness: callback 2 has replaced callback 1 while a frame that
\* arrived under callback 1 is waiting for its delivery.
C18_Witness ==
    /\ last.op = "setCallback"
    /\ incomingEventCallback = 2
    /\ immediates # <<>>
    /\ immediates[1].opcode = MESSAGE_RECEIVED

\* C19: while a callback is registered every unsolicited frame is appended
\* to the queue of deliveries and changes nothing else; every delivery takes
\* the oldest frame of the queue, passes it to the callback and leaves the
\* pending table alone; nothing else adds to, removes from or reorders the
\* queue.  So each frame is delivered once, in arrival order.
C19_EventsInOrder ==
    [][ /\ \A s \in DOMAIN sockets, f \in Frames :
              (/\ last'.op = "message"
               /\ last'.sock = s
               /\ ~MapHas(pending, f.seq)
               /\ incomingEventCallback # 0
               /\ EventOn(s, f))
              => /\ immediates' = Append(immediates, f)
                 /\ pending' = pending
                 /\ reqs' = reqs
                 /\ last'.called = NoCall
        /\ last'.op = "immediate"
              => /\ immediates # <<>>
                 /\ last'.called = [cb |-> incomingEventCallback,
                                    frame |-> Head(immediates)]
                 /\ last'.called.cb # 0
                 /\ immediates' = Tail(immediates)
                 /\ pending' = pending
                 /\ reqs' = reqs
        /\ last'.op \notin {"message", "immediate"}
              => (immediates' = immediates /\ last'.called = NoCall)
        /\ last'.op = "message"
              => /\ last'.called = NoCall
                 /\ \/ immediates' = immediates
                    \/ /\ Len(immediates') = Len(immediates) + 1
                       /\ SubSeq(immediates', 1, Len(immediates)) = immediates
      ]_vars

\* C19 witness: two different unsolicited frames arrived back-to-back while
\* a request was outstanding, and the first of them has been delivered.
C19_Witness ==
    /\ last.op = "immediate"
    /\ Len(immediates) = 1
    /\ last.called.frame # immediates[1]
    /\ last.called.frame.opcode = MESSAGE_RECEIVED
    /\ immediates[1].opcode = MESSAGE_RECEIVED
    /\ DOMAIN pending # {}

C21_GarbageDropped ==
    LET N == OnMessageData(Cur, Garbage)
    IN  /\ N.ret = "ParseError"
        /\ N.pending = pending
        /\ N.seq = seq
        /\ N.connection = connection
        /\ N.isConnected = isConnected
        /\ N.sockets = sockets
        /\ N.isLoggedIn = isLoggedIn
        /\ N.keepaliveTask = keepaliveTask
        /\ N.incomingEventCallback = incomingEventCallback
        /\ N.reqs = reqs
        /\ N.immediates = immediates
        /\ N.settled = NoSettle
        /\ N.called = NoCall
        /\ \A f \in Frames :
              OnMessageData([N EXCEPT !.ret = "ok"], f) = OnMessageData(Cur, f)

\* C21 witness: the connection is open with a request outstanding, a
\* callback registered and a frame waiting for delivery: data that does not
\* parse is dropped there.
C21_Witness ==
    /\ connection # 0
    /\ sockets[connection].st = "open"
    /\ sockets[connection].recv
    /\ DOMAIN pending # {}
    /\ incomingEventCallback # 0
    /\ immediates # <<>>
    /\ OnMessageData(Cur, Garbage).ret = "ParseError"

\* C22: a keepalive tick leaves the keepalive timer armed whatever its
\* outcome: with a connection it makes one KEEPALIVE request with the next
\* seq, without one it fails with the not-connected error and changes
\* nothing; a timeout of a request leaves the timer armed too; the timer is
\* disarmed only by disconnect().
C22_TickFailureKeepsTimer ==
    [][ /\ intervals # {}
           => LET N == KeepaliveFire(Cur)
              IN  /\ N.intervals = intervals
                  /\ N.keepaliveTask = keepaliveTask
                  /\ IF connection = 0
                     THEN N.ret = "NotConnected" /\ N.created = NoRequest
                                                 /\ N.seq = seq
                     ELSE /\ N.created.opcode = KEEPALIVE
                          /\ N.created.seq = seq
                          /\ N.seq = seq + 1
        /\ last'.op = "keepalive"
           => /\ intervals' = intervals
              /\ keepaliveTask' = keepaliveTask
              /\ last'.created.opcode = KEEPALIVE
              /\ last'.created.seq = seq
        /\ last'.op = "timeout"
           => (intervals' = intervals /\ keepaliveTask' = keepaliveTask)
        /\ (intervals # {} /\ intervals' # intervals)
           => last'.op = "disconnect"
      ]_vars

\* C22 witness: the request of a keepalive tick has timed out and the
\* keepalive timer is still armed.
C22_Witness ==
    /\ last.op = "timeout"
    /\ last.settled.how = "Timeout"
    /\ last.returned = NoReturn
    /\ intervals # {}
    /\ keepaliveTask # 0

\* C23: sendCode and loginByToken make their HELLO request in the call
\* itself; a START_AUTH or LOGIN_BY_TOKEN request is made only in the step
\* in which a frame resolves the HELLO request of the same call; and when
\* the HELLO request is rejected the call makes no further request and is
\* rejected with the same error.
C23_HelloThenAuth ==
    [][ /\ last'.op \in {"sendCode", "loginByToken"}
           => /\ last'.created.opcode = HELLO
              /\ seq' = seq + 1
              /\ last'.settled # NoSettle
                 => last'.returned.res = last'.settled.how
        /\ last'.created.opcode \in {START_AUTH, LOGIN_BY_TOKEN}
           => /\ last'.op = "message"
              /\ last'.settled.how = "resolved"
              /\ last'.settled.prev = "pending"
              /\ last'.settled.req \in DOMAIN reqs
              /\ reqs[last'.settled.req].task \in DOMAIN tasks
              /\ LET t == reqs[last'.settled.req].task
                 IN  /\ tasks[t].pc = "hello"
                     /\ tasks[t].kind = IF last'.created.opcode = START_AUTH
                                        THEN "sendCode" ELSE "loginByToken"
        /\ \A i \in DOMAIN reqs :
              (/\ last'.settled.req = i
               /\ last'.settled.how # "resolved"
               /\ reqs[i].st = "pending"
               /\ reqs[i].task \in DOMAIN tasks
               /\ tasks[reqs[i].task].pc = "hello")
              => /\ last'.created = NoRequest
                 /\ seq' = seq
                 /\ last'.returned = [task |-> reqs[i].task,
                                      kind |-> tasks[reqs[i].task].kind,
                                      res |-> last'.settled.how]
      ]_vars

\* C23 witness: the HELLO request of sendCode has timed out; sendCode was
\* rejected with the timeout and no request was made after that HELLO.
C23_Witness ==
    /\ last.op = "timeout"
    /\ last.returned.kind = "sendCode"
    /\ last.returned.res = "Timeout"
    /\ lastSeq = last.settled.seq
    /\ lastSent = last.settled.seq

\* C24: a frame that carries an error and whose seq is that of an
\* outstanding request resolves the request with exactly that frame; a
\* frame never rejects a request: rejections come only from a timeout or
\* from a send that throws.
C24_ErrorFrameResolves ==
    [][ /\ \A s \in DOMAIN sockets, f \in {g \in Frames : g.error} :
              (/\ last'.op = "message"
               /\ last'.sock = s
               /\ MapHas(pending, f.seq)
               /\ reqs[pending[f.seq]].st = "pending"
               /\ MessageOn(s, f))
              => /\ last'.settled = [req |-> pending[f.seq], seq |-> f.seq,
                                     how |-> "resolved", prev |-> "pending",
                                     value |-> f]
                 /\ reqs'[pending[f.seq]].st = "resolved"
        /\ (last'.op = "message" /\ last'.settled # NoSettle)
              => last'.settled.how = "resolved"
        /\ last'.settled.how \notin {"", "resolved"}
              => last'.op \in {"timeout", "invokeMethod"}
      ]_vars

\* C24 witness: a request of user code was resolved with a frame that
\* carries an error.
C24_Witness ==
    /\ last.op = "message"
    /\ last.settled.how = "resolved"
    /\ last.settled.prev = "pending"
    /\ last.settled.value.error
    /\ last.returned = NoReturn

\* C25 (as claimed): every entry of the pending table is eventually
\* removed.
C25_PendingEventuallyRemoved ==
    \A q \in 1..MaxSeq : (q \in DOMAIN pending) ~> (q \notin DOMAIN pending)

C27_NoDanglingTimers ==
    /\ \A i \in DOMAIN reqs : reqs[i].st = "resolved" => ~reqs[i].timer
    /\ last.op = "disconnect"
       => (intervals = {} /\ \A i \in DOMAIN reqs : ~reqs[i].timer)

\* C28 (as claimed): every entry of the pending table belongs to a request
\* whose promise is pending, and there are as many entries as such requests.
C28_PendingIsInFlight ==
    /\ \A q \in DOMAIN pending : reqs[pending[q]].st = "pending"
    /\ Cardinality(DOMAIN pending)
         = Cardinality({i \in DOMAIN reqs : reqs[i].st = "pending"})

\* C29: a keepalive timer is armed only while the logged-in flag is set; a
\* KEEPALIVE request is made only by a tick and only with the flag set; and
\* the flag is set only in the step in which a frame without error resolves
\* the auth request of signIn or loginByToken.
C29_KeepaliveGatedByLogin ==
    [][ /\ intervals' # {} => isLoggedIn'
        /\ keepaliveTask' # 0 => isLoggedIn'
        /\ last'.created.opcode = KEEPALIVE
              => (isLoggedIn /\ last'.op = "keepalive" /\ intervals # {})
        /\ (~isLoggedIn /\ isLoggedIn')
              => /\ last'.op = "message"
                 /\ last'.settled.how = "resolved"
                 /\ ~last'.settled.value.error
                 /\ last'.returned.kind \in {"signIn", "loginByToken"}
      ]_vars

\* C29 witness: a tick of the keepalive timer has sent a KEEPALIVE request on
\* the open connection of a logged-in session.
C29_Witness ==
    /\ last.op = "keepalive"
    /\ last.created.opcode = KEEPALIVE
    /\ last.created.sent
    /\ isLoggedIn
    /\ isConnected
    /\ intervals = {keepaliveTask}

\* C30 (as claimed): whenever sendCode, signIn or loginByToken makes a
\* START_AUTH, VERIFY_CODE or LOGIN_BY_TOKEN request, a HELLO request has
\* been made and answered on the connection the request is made on.
C30_HelloBeforeAuth ==
    [][ last'.created.opcode \in {START_AUTH, VERIFY_CODE, LOGIN_BY_TOKEN}
        => (helloed' # 0 /\ helloed' = last'.created.sock) ]_vars

\* C31: a close event of the transport clears the connection handle and the
\* connected flag and nothing else: the pending table and the requests in it
\* (none is settled), the sequence counter, the logged-in flag, the
\* keepalive timer, the registered callback, the running calls and the
\* queued deliveries are what they were before the event.
C31_CloseChangesOnlyHandle ==
    [][last'.op = "close"
       => /\ connection' = 0
          /\ ~isConnected'
          /\ pending' = pending
          /\ reqs' = reqs
          /\ last'.settled = NoSettle
          /\ last'.returned = NoReturn
          /\ seq' = seq
          /\ isLoggedIn' = isLoggedIn
          /\ keepaliveTask' = keepaliveTask
          /\ intervals' = intervals
          /\ incomingEventCallback' = incomingEventCallback
          /\ tasks' = tasks
          /\ immediates' = immediates]_vars

\* C31 witness: the transport of a logged-in client closed while a request
\* was outstanding, the keepalive timer armed and a callback registered.
C31_Witness ==
    /\ last.op = "close"
    /\ connection = 0
    /\ isLoggedIn
    /\ keepaliveTask # 0
    /\ keepaliveTask \in intervals
    /\ incomingEventCallback # 0
    /\ seq > 1
    /\ \E q \in DOMAIN pending : reqs[pending[q]].st = "pending"

\* C32: in the state a disconnect() that did not throw leaves behind,
\* connect() does not fail with the already-connected error: it creates a
\* new transport and makes it the connection.
C32_ConnectAfterDisconnect ==
    (last.op = "disconnect" /\ last.res = "ok")
    => LET N == ConnectCall(Cur)
       IN  /\ N.ret # "AlreadyConnected"
           /\ N.connection = Len(sockets) + 1

\* The response without error to the request with sequence number q.
OkResponse(q) == [seq |-> q, opcode |-> SEND_MESSAGE, error |-> FALSE]

\* What signIn returns when it is called in state S and its VERIFY_CODE
\* request is answered without error by the next frame.
SignInAnswered(S) ==
    OnMessageData([SignInCall(S) EXCEPT !.ret = "ok"], OkResponse(S.seq)).returned

\* What loginByToken returns when it is called in state S and its HELLO and
\* LOGIN_BY_TOKEN requests are answered without error by the next two frames.
LoginByTokenAnswered(S) ==
    LET A == OnMessageData([LoginByTokenCall(S) EXCEPT !.ret = "ok"],
                           OkResponse(S.seq))
    IN  OnMessageData([A EXCEPT !.ret = "ok"], OkResponse(S.seq + 1)).returned

\* C33: when the transport of a logged-in client has closed without
\* disconnect() (the keepalive timer is still the one the login armed) and
\* connect() has succeeded again, the first signIn or loginByToken on the
\* new connection whose requests are answered without error returns that
\* answer: it does not fail with keepalive-already-started.
C33_LoginAfterReconnect ==
    (/\ last.op = "open"
     /\ connection = last.sock
     /\ sockets[connection].promise = "resolved"
     /\ isLoggedIn
     /\ keepaliveTask # 0)
    => /\ SignInAnswered(Cur).res = "ok"
       /\ LoginByTokenAnswered(Cur).res = "ok"

\* C34: the sequence counter of a new client is 1; every step leaves it as
\* it is or, when the step makes a request, gives the request the counter's
\* value and adds one; close, disconnect(), connect() and open leave it as it
\* is; so the counter is always one more than the seq of the latest request
\* and no two requests of the client, on whatever connections, share a seq.
C34_SeqNeverReset ==
    /\ seq = 1
    /\ [][ /\ seq' >= seq
           /\ last'.op \in {"close", "disconnect", "connect", "open"}
              => seq' = seq
           /\ IF last'.created.seq # 0
              THEN last'.created.seq = seq /\ seq' = seq + 1
              ELSE seq' = seq
           /\ seq' = lastSeq' + 1
           /\ \A i, j \in DOMAIN reqs' :
                 (i # j /\ reqs'[i] # GoneRequest /\ reqs'[j] # GoneRequest)
                 => reqs'[i].seq # reqs'[j].seq
         ]_vars

\* C34 witness: the first request on the second connection got seq 3 while
\* requests made on the first connection, now closed, are still outstanding.
C34_Witness ==
    /\ last.created.seq = 3
    /\ last.created.sock = 2
    /\ connection = 2
    /\ sockets[1] = ClosedSocket
    /\ \A q \in 1..2 : \E i \in DOMAIN reqs :
          reqs[i].seq = q /\ reqs[i].sock = 1 /\ reqs[i].st = "pending"

\* C35: a frame resolves only a request that was made on the connection the
\* frame arrived on; a request whose connection has closed is not resolved
\* by a frame that arrives on a later connection.
C35_ResolvedOnOwnConnection ==
    [][(/\ last'.op = "message"
        /\ last'.settled.how = "resolved"
        /\ last'.settled.prev = "pending")
       => reqs[last'.settled.req].sock = last'.sock]_vars

\* C36: whenever the connected flag is true the client holds a connection
\* handle, so an operation that got past a check of isConnected does not
\* fail at the not-connected check of invokeMethod.
C36_ConnectedHasHandle ==
    isConnected
    => /\ connection # 0
       /\ InvokeMethod(Cur, SEND_MESSAGE, 0).ret # "NotConnected"

\* C36 witness: on the second connection, after the first one closed, the
\* flag is true and invokeMethod has handed a request to the transport.
C36_Witness ==
    /\ isConnected
    /\ connection = 2
    /\ sockets[1] = ClosedSocket
    /\ last.op = "invokeMethod"
    /\ last.created.sent
    /\ last.created.sock = 2

\* C37: at most one keepalive timer is armed at any time, and an armed
\* timer is the one the client holds the handle of, whatever logins,
\* disconnects, closes and reconnects came before.
C37_OneKeepaliveTimer ==
    /\ Cardinality(intervals) <= 1
    /\ intervals = IF keepaliveTask = 0 THEN {} ELSE {keepaliveTask}

\* C37 witness: the timer armed by the first login is still the only one
\* after the transport closed, connect() made a second connection and a
\* second login failed there at the already-started check.
C37_Witness ==
    /\ last.returned.res = "KeepaliveAlreadyStarted"
    /\ last.returned.task = 2
    /\ last.sock = 2
    /\ connection = 2
    /\ sockets[1] = ClosedSocket
    /\ keepaliveTask = 1
    /\ intervals = {1}

\* C38: while no callback is registered, a frame that arrives on a socket
\* and whose seq is not pending changes nothing: it is dropped and not
\* queued; so the queue of deliveries is empty as long as no callback is
\* registered, a frame joins the queue only when a callback is registered at
\* its arrival, and registering a callback delivers nothing and queues
\* nothing.
C38_DroppedWithoutCallback ==
    /\ [](incomingEventCallback = 0
          => /\ immediates = <<>>
             /\ \A s \in DOMAIN sockets, f \in Frames :
                   (/\ sockets[s].recv
                    /\ sockets[s].st \in {"open", "closing"}
                    /\ ~MapHas(pending, f.seq))
                   => OnMessageData(Cur, f) = [Cur EXCEPT !.ret = "dropped"])
    /\ [][ /\ Len(immediates') > Len(immediates)
              => incomingEventCallback # 0 /\ last'.op = "message"
           /\ last'.op = "setCallback"
              => immediates' = immediates /\ last'.called = NoCall
         ]_vars

\* C38 witness: no callback is registered, the open connection has just
\* delivered the response to a request while another request is outstanding,
\* and a server event that arrives now is dropped.
C38_Witness ==
    /\ incomingEventCallback = 0
    /\ HasOpenConnection
    /\ sockets[connection].recv
    /\ last.op = "message"
    /\ last.settled.how = "resolved"
    /\ pending # EmptyMap
    /\ \E f \in Frames :
          /\ f.opcode = MESSAGE_RECEIVED
          /\ ~MapHas(pending, f.seq)
          /\ OnMessageData(Cur, f).ret = "dropped"

\* C39: a frame whose seq is in the pending table resolves the request of
\* that entry with the frame, whatever the frame's opcode is and whether or
\* not a callback is registered, and the frame is neither queued for the
\* callback nor delivered to it.
C39_DispatchOnSeqOnly ==
    [][\A s \in DOMAIN sockets, f \in Frames :
          (/\ last'.op = "message"
           /\ last'.sock = s
           /\ MapHas(pending, f.seq)
           /\ MessageOn(s, f))
          => /\ last'.settled.req = pending[f.seq]
             /\ last'.settled.how = "resolved"
             /\ last'.settled.value = f
             /\ reqs[pending[f.seq]].st = "pending"
                => reqs'[pending[f.seq]].st = "resolved"
             /\ ~MapHas(pending', f.seq)
             /\ last'.res # "event"
             /\ immediates' = immediates
             /\ last'.called = NoCall
      ]_vars

\* C39 witness: with a callback registered and nothing queued, a frame with
\* the opcode of a server event and the seq of an outstanding request has
\* resolved that request and was not queued.
C39_Witness ==
    /\ last.op = "message"
    /\ last.settled.how = "resolved"
    /\ last.settled.prev = "pending"
    /\ last.settled.value.opcode = MESSAGE_RECEIVED
    /\ last.settled.value.seq = last.settled.seq
    /\ incomingEventCallback # 0
    /\ immediates = <<>>

\* C40: once an upload has sent its opcode 65, the notification is not
\* lost: an upload for which it has arrived since then never waits out the
\* readiness timer, and when it arrives while the upload waits for it, the
\* upload sends the final SEND_MESSAGE in the same step.
C40_FileReadyObserved ==
    [][\A t \in DOMAIN tasks :
          /\ (/\ last'.op = "readyTimeout"
              /\ tasks[t].kind = "upload"
              /\ tasks[t].pc = "ready"
              /\ tasks'[t].pc # "ready")
             => t \notin fileReady
          /\ (/\ last'.op = "message"
              /\ last'.emitted = FileReady
              /\ tasks[t].kind = "upload"
              /\ tasks[t].pc = "ready")
             => /\ tasks'[t].pc = "send"
                /\ last'.created.opcode = SEND_MESSAGE
      ]_vars
====
